---------------------------- MODULE Spec2Model ----------------------------
(***************************************************************************)
(* RcuLock (src/src/RcuLock.cpp): an epoch based read-copy-update lock,    *)
(* and RcuLockedList, the list it guards.                                  *)
(*                                                                         *)
(* Every thread is a process with a program counter.  One step of a thread *)
(* is one access to shared memory (a load or store of m_writing / m_epoch, *)
(* one operation of an Atomic counter, one operation of the mutex, the     *)
(* condition variable or the list); the local computation that follows an  *)
(* access is part of the same step.  Memory is sequentially consistent:    *)
(* the interleavings checked here are behaviours of every build.           *)
(*                                                                         *)
(* Atomic, Mutex and ConditionVar are used by the source with their usual  *)
(* meaning: decreaseAndTest / subAndTest change the counter and tell       *)
(* whether the result is zero; wait(m_mutex) releases the mutex while the  *)
(* caller is blocked and takes it again before it returns; notify() wakes  *)
(* one blocked thread and is lost when no thread is blocked.  A failed     *)
(* assert stops the program.                                               *)
(***************************************************************************)
EXTENDS Integers, FiniteSets

\* ------------------------------------------------------------- bounds
NumReaders == 2
NumWriters == 2
MaxReads == 1
MaxWrites == 2
WordBits == 2

Readers == 1 .. NumReaders
Writers == (NumReaders + 1) .. (NumReaders + NumWriters)
Threads == Readers \cup Writers
FirstWriter == NumReaders + 1

\* unsigned int, WordBits wide
Modulus == 2 ^ WordBits
MaxWord == Modulus - 1

VARIABLES
    m_epoch, m_writing,               \* volatile unsigned int
    m_currentReaders, m_nextReaders,  \* Atomic
    mutex,                            \* m_mutex: 0 (free) or the writer holding it
    waiters,                          \* writers blocked in m_waiter.wait
    aborted,                          \* an assert has failed
    node, released,                   \* m_list: the live node, the released nodes
    pc,                               \* each thread's position
    r_writing, r_epoch, held,         \* readers' locals
    w_readers, w_next, w_old,         \* writers' locals
    reads, writes,                    \* calls completed by each thread
    pre, unit, ok, ann, settled,      \* history variables: they decide no step
    sawIdle,                          \* per reader: the merging writer whose
                                      \*   m_writing = 0 its spin has observed
    moved,                            \* per writer: subtracted by this merge so far
    seen                              \* per readBegin between its two reads:
                                      \*   the epochs met

vars == << m_epoch, m_writing, m_currentReaders, m_nextReaders, mutex, waiters,
           aborted, node, released, pc, r_writing, r_epoch, held,
           w_readers, w_next, w_old, reads, writes, pre, unit, ok, ann, settled,
           sawIdle, moved, seen >>

shared == << m_epoch, m_writing, m_currentReaders, m_nextReaders >>
sync == << mutex, waiters >>
list == << node, released >>
rlocals == << r_writing, r_epoch, held >>
wlocals == << w_readers, w_next, w_old >>
counts == << reads, writes >>
notes == << sawIdle, moved, seen >>
history == << pre, unit, ok, ann, settled, notes >>

\* ------------------------------------------------------------- positions
ReadBeginPcs == {"rb_epoch", "rb_incNext", "rb_spinW", "rb_spinN", "rb_incCur"}
SectionPcs == {"get", "copy"}
ReadEndPcs == {"re_writing", "re_decNext", "re_check", "re_undo",
               "re_spinW", "re_spinN", "re_decCur", "re_notify"}
MovePcs == {"mv_reset", "mv_load", "mv_sub", "mv_add"}
WaitPcs == {"ww_snap", "ne_writing", "ne_epoch", "ww_check", "ww_waiting",
            "ww_wake", "ww_assert"} \cup MovePcs
WritePcs == {"w_set", "w_release", "w_unlock"} \cup WaitPcs

\* no node of m_list
NoNode == 0 - 1

\* ------------------------------------------------------------- construction
InitCommon ==
    /\ m_epoch = 1
    /\ m_writing = 0
    /\ m_currentReaders = 0
    /\ m_nextReaders = 0
    /\ mutex = 0
    /\ waiters = {}
    /\ aborted = FALSE
    /\ node = 0
    /\ released = {}
    /\ pc = [t \in Threads |-> "idle"]
    /\ r_writing = [r \in Readers |-> 0]
    /\ r_epoch = [r \in Readers |-> 0]
    /\ held = [r \in Readers |-> NoNode]
    /\ w_readers = [w \in Writers |-> 0]
    /\ w_next = [w \in Writers |-> 0]
    /\ w_old = [w \in Writers |-> NoNode]
    /\ pre = [w \in Writers |-> {}]
    /\ unit = [r \in Readers |-> "none"]
    /\ ok = [r \in Readers |-> TRUE]
    /\ ann = [w \in Writers |-> 0]
    /\ settled = 0
    /\ sawIdle = [r \in Readers |-> 0]
    /\ moved = [w \in Writers |-> 0]
    /\ seen = [r \in Readers |-> {}]

\* every thread of the harness runs: the first writer makes MaxWrites calls of
\* write, every other writer one call, every reader MaxReads calls of read
Init ==
    /\ InitCommon
    /\ reads = [r \in Readers |-> 0]
    /\ writes = [w \in Writers |-> IF w = FirstWriter THEN 0 ELSE MaxWrites - 1]

\* one writer thread only: the other writers make no call
InitOneWriter ==
    /\ InitCommon
    /\ reads = [r \in Readers |-> 0]
    /\ writes = [w \in Writers |-> IF w = FirstWriter THEN 0 ELSE MaxWrites]

\* one reader thread making one call of read; every writer makes MaxWrites calls
\* of write, which takes the epoch past the largest value
InitOneReader ==
    /\ InitCommon
    /\ reads = [r \in Readers |-> IF r = 1 THEN MaxReads - 1 ELSE MaxReads]
    /\ writes = [w \in Writers |-> 0]

goto(t, p) == pc' = [pc EXCEPT ![t] = p]

\* ------------------------------------------------------------- readers
\* a call of RcuLockedList::read returns
Return(r) ==
    /\ goto(r, "idle")
    /\ reads' = [reads EXCEPT ![r] = @ + 1]
    /\ r_writing' = [r_writing EXCEPT ![r] = 0]
    /\ r_epoch' = [r_epoch EXCEPT ![r] = 0]
    /\ UNCHANGED << writes, held >>

\* readBegin: unsigned int writing = m_writing;
ReadBegin_LoadWriting(r) ==
    /\ ~aborted
    /\ pc[r] = "idle"
    /\ reads[r] < MaxReads
    /\ r_writing' = [r_writing EXCEPT ![r] = m_writing]
    /\ seen' = [seen EXCEPT ![r] = {m_epoch} \cup ({m_writing} \ {0})]
    /\ goto(r, "rb_epoch")
    /\ UNCHANGED << shared, sync, aborted, list, r_epoch, held, wlocals, counts,
                    pre, unit, ok, ann, settled, sawIdle, moved >>

\* readBegin: unsigned int epoch = this->currentEpoch(); if(writing != 0)
ReadBegin_LoadEpoch(r) ==
    /\ ~aborted
    /\ pc[r] = "rb_epoch"
    /\ r_epoch' = [r_epoch EXCEPT ![r] = m_epoch]
    /\ seen' = [seen EXCEPT ![r] = {}]
    /\ goto(r, IF r_writing[r] # 0 THEN "rb_incNext" ELSE "rb_spinW")
    /\ UNCHANGED << shared, sync, aborted, list, r_writing, held, wlocals, counts,
                    pre, unit, ok, ann, settled, sawIdle, moved >>

\* readBegin: m_nextReaders.increase(); return writing;
ReadBegin_IncNext(r) ==
    /\ ~aborted
    /\ pc[r] = "rb_incNext"
    /\ m_nextReaders' = m_nextReaders + 1
    /\ r_epoch' = [r_epoch EXCEPT ![r] = r_writing[r]]
    /\ r_writing' = [r_writing EXCEPT ![r] = 0]
    /\ unit' = [unit EXCEPT ![r] = "next"]
    /\ goto(r, "get")
    /\ UNCHANGED << m_epoch, m_writing, m_currentReaders, sync, aborted, list, held,
                    wlocals, counts, pre, ok, ann, settled, notes >>

\* the writer that is past m_writing = 0 of moveNextToCurrentEpoch and has not
\* completed the merge (it holds m_mutex, so there is one at most); 0: none
Merging ==
    IF \E w \in Writers : pc[w] \in {"mv_load", "mv_sub", "mv_add"}
      THEN CHOOSE w \in Writers : pc[w] \in {"mv_load", "mv_sub", "mv_add"}
      ELSE 0

\* the spin of readBegin and readEnd, its first test: m_writing == 0; sawIdle
\* keeps the writer whose reset of m_writing this read has observed
SpinWriting(r, again, out) ==
    /\ ~aborted
    /\ goto(r, IF m_writing = 0 THEN again ELSE out)
    /\ sawIdle' = [sawIdle EXCEPT ![r] = IF m_writing = 0 THEN Merging ELSE 0]
    /\ UNCHANGED << shared, sync, aborted, list, rlocals, wlocals, counts,
                    pre, unit, ok, ann, settled, moved, seen >>

\* the spin of readBegin and readEnd, its second test: m_nextReaders > 0
SpinNext(r, again, out) ==
    /\ ~aborted
    /\ goto(r, IF m_nextReaders > 0 THEN again ELSE out)
    /\ UNCHANGED << shared, sync, aborted, list, rlocals, wlocals, counts, history >>

\* readBegin: while(m_writing == 0 && m_nextReaders > 0);
ReadBegin_SpinWriting(r) ==
    /\ pc[r] = "rb_spinW"
    /\ SpinWriting(r, "rb_spinN", "rb_incCur")

ReadBegin_SpinNext(r) ==
    /\ pc[r] = "rb_spinN"
    /\ SpinNext(r, "rb_spinW", "rb_incCur")

\* readBegin: m_currentReaders.increase(); return epoch;
ReadBegin_IncCurrent(r) ==
    /\ ~aborted
    /\ pc[r] = "rb_incCur"
    /\ m_currentReaders' = m_currentReaders + 1
    /\ unit' = [unit EXCEPT ![r] = "cur"]
    /\ sawIdle' = [sawIdle EXCEPT ![r] = 0]
    /\ goto(r, "get")
    /\ UNCHANGED << m_epoch, m_writing, m_nextReaders, sync, aborted, list, rlocals,
                    wlocals, counts, pre, ok, ann, settled, moved, seen >>

\* read: m_list.get(index) reaches the live node
Read_Get(r) ==
    /\ ~aborted
    /\ pc[r] = "get"
    /\ held' = [held EXCEPT ![r] = node]
    /\ goto(r, "copy")
    /\ UNCHANGED << shared, sync, aborted, list, r_writing, r_epoch, wlocals, counts, history >>

\* read: the Item of the node is copied into result; readEnd(epoch) is called
Read_Copy(r) ==
    /\ ~aborted
    /\ pc[r] = "copy"
    /\ held' = [held EXCEPT ![r] = NoNode]
    /\ pre' = [w \in Writers |-> pre[w] \ {r}]
    /\ goto(r, "re_writing")
    /\ UNCHANGED << shared, sync, aborted, list, r_writing, r_epoch, wlocals, counts,
                    unit, ok, ann, settled, notes >>

\* readEnd: unsigned int writing = m_writing; if(epoch == writing) assert(writing > 0);
ReadEnd_LoadWriting(r) ==
    /\ ~aborted
    /\ pc[r] = "re_writing"
    /\ r_writing' = [r_writing EXCEPT ![r] = m_writing]
    /\ IF r_epoch[r] = m_writing
         THEN IF m_writing > 0
                THEN goto(r, "re_decNext") /\ UNCHANGED aborted
                ELSE aborted' = TRUE /\ UNCHANGED pc
         ELSE goto(r, "re_spinW") /\ UNCHANGED aborted
    /\ UNCHANGED << shared, sync, list, r_epoch, held, wlocals, counts, history >>

\* readEnd: m_nextReaders.decrease();
ReadEnd_DecNext(r) ==
    /\ ~aborted
    /\ pc[r] = "re_decNext"
    /\ m_nextReaders' = m_nextReaders - 1
    /\ ok' = [ok EXCEPT ![r] = (unit[r] = "next")]
    /\ goto(r, "re_check")
    /\ UNCHANGED << m_epoch, m_writing, m_currentReaders, sync, aborted, list, rlocals,
                    wlocals, counts, pre, unit, ann, settled, notes >>

\* readEnd: if(writing != m_writing) ... else return
ReadEnd_Check(r) ==
    /\ ~aborted
    /\ pc[r] = "re_check"
    /\ IF r_writing[r] # m_writing
         THEN /\ goto(r, "re_undo")
              /\ UNCHANGED << rlocals, counts, unit >>
         ELSE /\ Return(r)
              /\ unit' = [unit EXCEPT ![r] = "none"]
    /\ UNCHANGED << shared, sync, aborted, list, wlocals, pre, ok, ann, settled, notes >>

\* readEnd: m_nextReaders.increase(); return readEnd(epoch);
ReadEnd_Undo(r) ==
    /\ ~aborted
    /\ pc[r] = "re_undo"
    /\ m_nextReaders' = m_nextReaders + 1
    /\ goto(r, "re_writing")
    /\ UNCHANGED << m_epoch, m_writing, m_currentReaders, sync, aborted, list, rlocals,
                    wlocals, counts, history >>

\* readEnd: while(m_writing == 0 && m_nextReaders > 0);
ReadEnd_SpinWriting(r) ==
    /\ pc[r] = "re_spinW"
    /\ SpinWriting(r, "re_spinN", "re_decCur")

ReadEnd_SpinNext(r) ==
    /\ pc[r] = "re_spinN"
    /\ SpinNext(r, "re_spinW", "re_decCur")

\* readEnd calling m_waiter.notify() whatever decreaseAndTest tells
ReadEnd_DecCurrent_AlwaysNotify(r) ==
    /\ ~aborted
    /\ pc[r] = "re_decCur"
    /\ m_currentReaders' = m_currentReaders - 1
    /\ ok' = [ok EXCEPT ![r] = (unit[r] = "cur")]
    /\ unit' = [unit EXCEPT ![r] = "none"]
    /\ sawIdle' = [sawIdle EXCEPT ![r] = 0]
    /\ goto(r, "re_notify")
    /\ UNCHANGED << m_epoch, m_writing, m_nextReaders, sync, aborted, list, rlocals,
                    wlocals, counts, pre, ann, settled, moved, seen >>

\* readEnd: if(m_currentReaders.decreaseAndTest())
ReadEnd_DecCurrent(r) ==
    /\ ~aborted
    /\ pc[r] = "re_decCur"
    /\ m_currentReaders' = m_currentReaders - 1
    /\ ok' = [ok EXCEPT ![r] = (unit[r] = "cur")]
    /\ unit' = [unit EXCEPT ![r] = "none"]
    /\ sawIdle' = [sawIdle EXCEPT ![r] = 0]
    /\ IF m_currentReaders - 1 = 0
         THEN goto(r, "re_notify") /\ UNCHANGED << rlocals, counts >>
         ELSE Return(r)
    /\ UNCHANGED << m_epoch, m_writing, m_nextReaders, sync, aborted, list, wlocals,
                    pre, ann, settled, moved, seen >>

\* readEnd: m_waiter.notify(); one blocked writer is woken, with none blocked
\* nothing happens
ReadEnd_Notify(r) ==
    /\ ~aborted
    /\ pc[r] = "re_notify"
    /\ IF waiters = {}
         THEN /\ Return(r)
              /\ UNCHANGED waiters
         ELSE \E w \in waiters :
                 /\ waiters' = waiters \ {w}
                 /\ pc' = [pc EXCEPT ![w] = "ww_wake", ![r] = "idle"]
                 /\ reads' = [reads EXCEPT ![r] = @ + 1]
                 /\ r_writing' = [r_writing EXCEPT ![r] = 0]
                 /\ r_epoch' = [r_epoch EXCEPT ![r] = 0]
                 /\ UNCHANGED << writes, held >>
    /\ UNCHANGED << shared, mutex, aborted, list, wlocals, history >>

\* ------------------------------------------------------------- writers
\* nextEpoch without its overflow branch: the successor modulo 2^WordBits
NextEpochValue_NoOverflowBranch(e) == (e + 1) % Modulus

\* nextEpoch: the value written to m_writing and then to m_epoch; the test
\* m_epoch == -1 compares with the largest unsigned value
NextEpochValue(e) == IF e = MaxWord THEN 1 ELSE (e + 1) % Modulus

\* write: m_lock.writeBegin(), m_mutex.lock()
Write_Begin(w) ==
    /\ ~aborted
    /\ pc[w] = "idle"
    /\ writes[w] < MaxWrites
    /\ mutex = 0
    /\ mutex' = w
    /\ goto(w, "w_set")
    /\ UNCHANGED << shared, waiters, aborted, list, rlocals, wlocals, counts, history >>

\* write: old = m_list.set(index, value); a new node replaces the live one
Write_Set(w) ==
    /\ ~aborted
    /\ pc[w] = "w_set"
    /\ w_old' = [w_old EXCEPT ![w] = node]
    /\ node' = node + 1
    /\ goto(w, "ww_snap")
    /\ UNCHANGED << shared, sync, aborted, released, rlocals, w_readers, w_next,
                    counts, history >>

\* waitForReaders: assert(m_mutex.locked()); int readers = m_currentReaders;
Wait_Snapshot(w) ==
    /\ ~aborted
    /\ pc[w] = "ww_snap"
    /\ IF mutex # 0
         THEN /\ w_readers' = [w_readers EXCEPT ![w] = m_currentReaders]
              /\ settled' = 0
              /\ goto(w, "ne_writing")
              /\ UNCHANGED aborted
         ELSE /\ aborted' = TRUE
              /\ UNCHANGED << w_readers, settled, pc >>
    /\ UNCHANGED << shared, sync, list, rlocals, w_next, w_old, counts, pre, unit, ok,
                    ann, notes >>

\* the values of m_epoch and m_writing (0 apart) met by each readBegin that is
\* between its read of m_writing and its read of m_epoch, v being stored now
Noted(v) ==
    [r \in Readers |-> IF pc[r] = "rb_epoch" THEN seen[r] \cup {v} ELSE seen[r]]

\* nextEpoch storing the current epoch, not the next one, to m_writing
NextEpoch_SetWriting_CurrentEpoch(w) ==
    /\ ~aborted
    /\ pc[w] = "ne_writing"
    /\ m_writing' = m_epoch
    /\ ann' = [ann EXCEPT ![w] = m_epoch]
    /\ pre' = [pre EXCEPT ![w] = {r \in Readers : pc[r] \in SectionPcs}]
    /\ seen' = Noted(m_epoch)
    /\ goto(w, "ne_epoch")
    /\ UNCHANGED << m_epoch, m_currentReaders, m_nextReaders, sync, aborted, list,
                    rlocals, wlocals, counts, unit, ok, settled, sawIdle, moved >>

\* nextEpoch: m_writing = 1; or m_writing = m_epoch + 1;
NextEpoch_SetWriting(w) ==
    /\ ~aborted
    /\ pc[w] = "ne_writing"
    /\ m_writing' = NextEpochValue(m_epoch)
    /\ ann' = [ann EXCEPT ![w] = NextEpochValue(m_epoch)]
    /\ pre' = [pre EXCEPT ![w] = {r \in Readers : pc[r] \in SectionPcs}]
    /\ seen' = Noted(NextEpochValue(m_epoch))
    /\ goto(w, "ne_epoch")
    /\ UNCHANGED << m_epoch, m_currentReaders, m_nextReaders, sync, aborted, list,
                    rlocals, wlocals, counts, unit, ok, settled, sawIdle, moved >>

\* nextEpoch: m_epoch = 1; or ++m_epoch; (m_epoch is as the branch read it: it is
\* changed here only)
NextEpoch_SetEpoch(w) ==
    /\ ~aborted
    /\ pc[w] = "ne_epoch"
    /\ m_epoch' = NextEpochValue(m_epoch)
    /\ seen' = Noted(NextEpochValue(m_epoch))
    /\ goto(w, "ww_check")
    /\ UNCHANGED << m_writing, m_currentReaders, m_nextReaders, sync, aborted, list,
                    rlocals, wlocals, counts, pre, unit, ok, ann, settled, sawIdle, moved >>

\* waitForReaders: if(readers > 0) m_waiter.wait(m_mutex): the mutex is released
\* and the writer blocks
Wait_Check(w) ==
    /\ ~aborted
    /\ pc[w] = "ww_check"
    /\ IF w_readers[w] > 0
         THEN /\ mutex' = 0
              /\ waiters' = waiters \cup {w}
              /\ goto(w, "ww_waiting")
         ELSE /\ goto(w, "mv_reset")
              /\ UNCHANGED sync
    /\ UNCHANGED << shared, aborted, list, rlocals, wlocals, counts, history >>

\* m_waiter.wait(m_mutex) returns: the woken writer takes the mutex again
Wait_Reacquire(w) ==
    /\ ~aborted
    /\ pc[w] = "ww_wake"
    /\ mutex = 0
    /\ mutex' = w
    /\ goto(w, "ww_assert")
    /\ UNCHANGED << shared, waiters, aborted, list, rlocals, wlocals, counts, history >>

\* waitForReaders: assert(m_currentReaders == 0);
Wait_Assert(w) ==
    /\ ~aborted
    /\ pc[w] = "ww_assert"
    /\ IF m_currentReaders = 0
         THEN goto(w, "mv_reset") /\ UNCHANGED aborted
         ELSE aborted' = TRUE /\ UNCHANGED pc
    /\ UNCHANGED << shared, sync, list, rlocals, wlocals, counts, history >>

\* moveNextToCurrentEpoch without its first statement: m_writing keeps its value
Move_Reset_KeepsMarker(w) ==
    /\ ~aborted
    /\ pc[w] = "mv_reset"
    /\ goto(w, "mv_load")
    /\ UNCHANGED << shared, sync, aborted, list, rlocals, wlocals, counts, history >>

\* moveNextToCurrentEpoch: m_writing = 0;
Move_Reset(w) ==
    /\ ~aborted
    /\ pc[w] = "mv_reset"
    /\ m_writing' = 0
    /\ moved' = [moved EXCEPT ![w] = 0]
    /\ goto(w, "mv_load")
    /\ UNCHANGED << m_epoch, m_currentReaders, m_nextReaders, sync, aborted, list,
                    rlocals, wlocals, counts, pre, unit, ok, ann, settled, sawIdle, seen >>

\* moveNextToCurrentEpoch: int next = m_nextReaders;
Move_Load(w) ==
    /\ ~aborted
    /\ pc[w] = "mv_load"
    /\ w_next' = [w_next EXCEPT ![w] = m_nextReaders]
    /\ goto(w, "mv_sub")
    /\ UNCHANGED << shared, sync, aborted, list, rlocals, w_readers, w_old, counts, history >>

\* moveNextToCurrentEpoch: if(m_nextReaders.subAndTest(next)): the counter is
\* changed whatever the test gives
Move_Sub(w) ==
    /\ ~aborted
    /\ pc[w] = "mv_sub"
    /\ m_nextReaders' = m_nextReaders - w_next[w]
    /\ moved' = [moved EXCEPT ![w] = @ + w_next[w]]
    /\ IF m_nextReaders - w_next[w] = 0
         THEN /\ goto(w, "mv_add")
              /\ unit' = [r \in Readers |-> IF unit[r] = "next" THEN "mid" ELSE unit[r]]
         ELSE /\ goto(w, "mv_load")
              /\ UNCHANGED unit
    /\ UNCHANGED << m_epoch, m_writing, m_currentReaders, sync, aborted, list, rlocals,
                    wlocals, counts, pre, ok, ann, settled, sawIdle, seen >>

\* moveNextToCurrentEpoch: m_currentReaders.add(next); break; writeWait returns
Move_Add(w) ==
    /\ ~aborted
    /\ pc[w] = "mv_add"
    /\ m_currentReaders' = m_currentReaders + w_next[w]
    /\ unit' = [r \in Readers |-> IF unit[r] = "mid" THEN "cur" ELSE unit[r]]
    /\ settled' = ann[w]
    /\ sawIdle' = [r \in Readers |-> IF sawIdle[r] = w THEN 0 ELSE sawIdle[r]]
    /\ moved' = [moved EXCEPT ![w] = 0]
    /\ goto(w, "w_release")
    /\ UNCHANGED << m_epoch, m_writing, m_nextReaders, sync, aborted, list, rlocals,
                    wlocals, counts, pre, ok, ann, seen >>

\* write: m_list.release(old);
Write_Release(w) ==
    /\ ~aborted
    /\ pc[w] = "w_release"
    /\ released' = released \cup {w_old[w]}
    /\ goto(w, "w_unlock")
    /\ UNCHANGED << shared, sync, aborted, node, rlocals, wlocals, counts, history >>

\* write: m_lock.writeEnd(), m_mutex.unlock(); write returns
Write_End(w) ==
    /\ ~aborted
    /\ pc[w] = "w_unlock"
    /\ mutex' = 0
    /\ writes' = [writes EXCEPT ![w] = @ + 1]
    /\ w_readers' = [w_readers EXCEPT ![w] = 0]
    /\ w_next' = [w_next EXCEPT ![w] = 0]
    /\ w_old' = [w_old EXCEPT ![w] = NoNode]
    /\ pre' = [pre EXCEPT ![w] = {}]
    /\ ann' = [ann EXCEPT ![w] = 0]
    /\ goto(w, "idle")
    /\ UNCHANGED << shared, waiters, aborted, list, rlocals, reads, unit, ok,
                    settled, notes >>

\* ------------------------------------------------------------- specifications
ReaderStep(r) ==
    \/ ReadBegin_LoadWriting(r)
    \/ ReadBegin_LoadEpoch(r)
    \/ ReadBegin_IncNext(r)
    \/ ReadBegin_SpinWriting(r)
    \/ ReadBegin_SpinNext(r)
    \/ ReadBegin_IncCurrent(r)
    \/ Read_Get(r)
    \/ Read_Copy(r)
    \/ ReadEnd_LoadWriting(r)
    \/ ReadEnd_DecNext(r)
    \/ ReadEnd_Check(r)
    \/ ReadEnd_Undo(r)
    \/ ReadEnd_SpinWriting(r)
    \/ ReadEnd_SpinNext(r)
    \/ ReadEnd_DecCurrent(r)
    \/ ReadEnd_Notify(r)

WriterStep(w) ==
    \/ Write_Begin(w)
    \/ Write_Set(w)
    \/ Wait_Snapshot(w)
    \/ NextEpoch_SetWriting(w)
    \/ NextEpoch_SetEpoch(w)
    \/ Wait_Check(w)
    \/ Wait_Reacquire(w)
    \/ Wait_Assert(w)
    \/ Move_Reset(w)
    \/ Move_Load(w)
    \/ Move_Sub(w)
    \/ Move_Add(w)
    \/ Write_Release(w)
    \/ Write_End(w)

Next ==
    \/ \E r \in Readers : ReaderStep(r)
    \/ \E w \in Writers : WriterStep(w)

\* readers and writers of the harness, any interleaving
Spec == Init /\ [][Next]_vars

\* the same with one writer thread
SpecOneWriter == InitOneWriter /\ [][Next]_vars

\* every writer thread and one reader thread
SpecOneReader == InitOneReader /\ [][Next]_vars

\* one writer thread, and every thread that can take a step eventually takes one:
\* the scheduler starves no runnable thread
FairSpecOneWriter ==
    /\ SpecOneWriter
    /\ \A r \in Readers : WF_vars(ReaderStep(r))
    /\ \A w \in Writers : WF_vars(WriterStep(w))

\* ------------------------------------------------------------- claims
\* C1: writeWait does not return while a reader is outstanding whose readBegin
\* returned before this writeWait's nextEpoch published m_writing and which has
\* not yet called readEnd.
C1_DrainedBeforeReturn ==
    \A w \in Writers : pc[w] = "w_release" => pre[w] = {}

\* C2: m_list.release(old) is never executed while a reader between readBegin
\* and readEnd still holds the node that write replaced.
C2_NoReleaseWhileHeld ==
    \A r \in Readers : pc[r] = "copy" => held[r] \notin released

\* C3: from one writer's writeBegin to its writeEnd, the wait on m_waiter
\* included, no other writer is between its own writeBegin and writeEnd.
C3_WritersNeverOverlap ==
    \A w1, w2 \in Writers :
        w1 # w2 => ~(pc[w1] \in WritePcs /\ pc[w2] \in WritePcs)

\* C4: with no reader inside readBegin or readEnd and no writer inside
\* moveNextToCurrentEpoch, m_currentReaders + m_nextReaders is the number of
\* readers between readBegin and readEnd.
C4_CountsMatchAdmitted ==
    ( /\ \A r \in Readers : pc[r] \in {"idle"} \cup SectionPcs
      /\ \A w \in Writers : pc[w] \notin MovePcs )
    => m_currentReaders + m_nextReaders
         = Cardinality({r \in Readers : pc[r] \in SectionPcs})

\* C5: the decrement readEnd ends with (its undone ones apart) is made to the
\* counter that holds the reader's unit at that time.
C5_DecrementsHoldingCounter ==
    \A r \in Readers : pc[r] \in {"idle", "re_notify"} => ok[r]

\* C6: from the return of a writeWait to the start of the next one,
\* m_nextReaders is 0, m_writing is 0 and currentEpoch() is the epoch that
\* transition announced.
C6_SettledAfterWait ==
    (settled # 0 /\ \A w \in Writers : pc[w] \notin WaitPcs)
    => (m_nextReaders = 0 /\ m_writing = 0 /\ m_epoch = settled)

\* C7: every reader that is admitted goes on to call readEnd (the scheduler is
\* fair), and then every writeWait that is called returns, unless an assert has
\* stopped the program.
C7_WriteWaitReturns ==
    \A w \in Writers : (pc[w] \in WaitPcs) ~> (pc[w] \notin WaitPcs \/ aborted)

\* C8: under fair scheduling every readBegin and every readEnd that is called
\* returns, unless an assert has stopped the program.
C8_ReaderCallsReturn ==
    \A r \in Readers :
        /\ (pc[r] \in ReadBeginPcs) ~> (pc[r] \in SectionPcs \/ aborted)
        /\ (pc[r] \in ReadEndPcs) ~> (pc[r] = "idle" \/ aborted)

\* some writer executes the store to m_epoch of nextEpoch
EpochStored == \E w \in Writers : pc[w] = "ne_epoch" /\ pc'[w] = "ww_check"

\* C9: each transition takes currentEpoch() to its successor, the largest value
\* to 1; no other step changes it, and it is never 0.
C9_EpochAdvancesByOne ==
    /\ [](m_epoch \in 1 .. MaxWord)
    /\ [][ IF EpochStored
             THEN m_epoch' = (IF m_epoch = MaxWord THEN 1 ELSE m_epoch + 1)
             ELSE m_epoch' = m_epoch ]_vars

\* the transition that starts at the largest value is under way, 1 announced
\* and stored
C9_Wrapped == m_epoch = 1 /\ m_writing = 1

\* C10: once every thread has completed all its calls, m_currentReaders,
\* m_nextReaders and m_writing are 0.
C10_QuiescentCountersZero ==
    ( /\ \A t \in Threads : pc[t] = "idle"
      /\ \A r \in Readers : reads[r] = MaxReads
      /\ \A w \in Writers : writes[w] = MaxWrites )
    => (m_currentReaders = 0 /\ m_nextReaders = 0 /\ m_writing = 0)

\* a writer that has stored m_writing in nextEpoch and has not yet stored
\* m_writing = 0 in moveNextToCurrentEpoch
AnnouncedPcs == {"ne_epoch", "ww_check", "ww_waiting", "ww_wake", "ww_assert", "mv_reset"}

\* a writer between the return of nextEpoch and the completion of
\* moveNextToCurrentEpoch, the drain wait included
TransitionPcs == {"ww_check", "ww_waiting", "ww_wake", "ww_assert"} \cup MovePcs

C12_CountersNotNegative ==
    /\ m_currentReaders >= 0
    /\ m_nextReaders < 0 => \E r \in Readers : pc[r] \in {"re_check", "re_undo"}
    /\ \A w \in Writers : w_readers[w] >= 0 /\ w_next[w] >= 0

\* C13: with no reader active (every reader has returned from its last call)
\* the snapshot a write takes of m_currentReaders is not positive, so the write
\* skips the drain and does not block on m_waiter; and with no write in progress
\* m_list.get reaches the node of the last completed write (one writer thread:
\* its k-th write installs node k).
C13_QuietWriteSkipsDrain ==
    /\ ( /\ \A r \in Readers : pc[r] = "idle" /\ reads[r] = MaxReads
         /\ \A w \in Writers : pc[w] \in {"idle", "w_set", "ww_snap"} )
       => m_currentReaders <= 0
    /\ (\A w \in Writers : pc[w] = "idle") => node = writes[FirstWriter]

\* a writer whose transition has not yet merged: m_writing is stored and the
\* subAndTest that empties m_nextReaders is still to come
UnmergedPcs == AnnouncedPcs \cup {"mv_load", "mv_sub"}

\* C14: a readBegin that sampled m_writing != 0 increases m_nextReaders only and
\* returns the sampled value, otherwise it increases m_currentReaders only and
\* returns the epoch it read; and a reader that sampled m_writing != 0 is counted
\* in m_nextReaders when the transition it sampled merges: its increase comes
\* before that transition's merge.
C14_AdmittedToNextBeforeMerge ==
    [][ \A r \in Readers :
          /\ (pc[r] = "rb_incNext" /\ pc'[r] = "get")
             => /\ r_writing[r] # 0
                /\ m_nextReaders' = m_nextReaders + 1
                /\ m_currentReaders' = m_currentReaders
                /\ r_epoch'[r] = r_writing[r]
                /\ \E w \in Writers : ann[w] = r_writing[r] /\ pc[w] \in UnmergedPcs
          /\ (pc[r] = "rb_incCur" /\ pc'[r] = "get")
             => /\ r_writing[r] = 0
                /\ m_currentReaders' = m_currentReaders + 1
                /\ m_nextReaders' = m_nextReaders
                /\ r_epoch'[r] = r_epoch[r] ]_vars

\* some writer's merge is under way with readers still to be transferred: they
\* are counted in m_nextReaders, or taken from it and not yet added to
\* m_currentReaders
MergeIncomplete ==
    \E w \in Writers :
        \/ pc[w] \in {"mv_load", "mv_sub"} /\ m_nextReaders # 0
        \/ pc[w] = "mv_add" /\ w_next[w] # 0

\* reader r executes m_currentReaders.increase() of readBegin or
\* m_currentReaders.decreaseAndTest() of readEnd
ChangesCurrent(r) ==
    /\ pc[r] \in {"rb_incCur", "re_decCur"}
    /\ pc'[r] # pc[r]

\* C15: no reader that has observed m_writing == 0 as reset by a transition
\* changes m_currentReaders, in readBegin or readEnd, while the merge of that
\* transition is incomplete (m_nextReaders not yet zeroed, or the captured value
\* not yet added to m_currentReaders).
C15_NoChangeDuringMerge ==
    [][ \A r \in Readers :
          (ChangesCurrent(r) /\ sawIdle[r] # 0) => ~MergeIncomplete ]_vars

\* C16: whenever a writer has resumed from m_waiter.wait(m_mutex) and is at
\* assert(m_currentReaders == 0), m_currentReaders is 0: the assertion holds
\* every time it is evaluated.
C16_DrainAssertHolds ==
    \A w \in Writers : pc[w] = "ww_assert" => m_currentReaders = 0

\* C17: one execution of moveNextToCurrentEpoch transfers without loss: when it
\* is about to execute m_currentReaders.add(next), the total it has subtracted
\* from m_nextReaders over the iterations of its loop is the amount next it adds.
C17_MergeTransfersAll ==
    \A w \in Writers : pc[w] = "mv_add" => moved[w] = w_next[w]

\* reader r executes m_currentReaders.decreaseAndTest() of readEnd
DecreasesCurrent(r) == pc[r] = "re_decCur" /\ pc'[r] # "re_decCur"

\* some writer blocked in m_waiter.wait is woken
Woken == \E w \in Writers : pc[w] = "ww_waiting" /\ pc'[w] = "ww_wake"

\* C18 (as stated): readEnd goes on to m_waiter.notify() only when its decrement
\* brought m_currentReaders to zero and m_writing != 0 at that moment, and never
\* from the m_nextReaders branch.
C18_NotifyOnlyInTransition ==
    [][ \A r \in Readers :
          (pc'[r] = "re_notify" /\ pc[r] # "re_notify")
          => (DecreasesCurrent(r) /\ m_currentReaders' = 0 /\ m_writing # 0) ]_vars

\* C18 (amended): readEnd goes on to m_waiter.notify() exactly when its decrement
\* brings m_currentReaders to zero, whether or not m_writing != 0; never from the
\* m_nextReaders branch; and a blocked writer is woken by that notify only.
C18_NotifyOnZero ==
    [][ /\ \A r \in Readers :
             /\ (pc'[r] = "re_notify" /\ pc[r] # "re_notify") => DecreasesCurrent(r)
             /\ DecreasesCurrent(r) => (pc'[r] = "re_notify" <=> m_currentReaders' = 0)
        /\ Woken => \E r \in Readers : pc[r] = "re_notify" /\ pc'[r] = "idle" ]_vars

\* a reader is about to notify with no transition in flight
C18_NotifyWhileIdle ==
    \E r \in Readers : pc[r] = "re_notify" /\ m_writing = 0 /\ m_currentReaders = 0
                       /\ \A w \in Writers : pc[w] = "idle"

\* the successor of epoch e: 1 after the largest value
Successor(e) == IF e = MaxWord THEN 1 ELSE e + 1

\* reader r executes the read of m_epoch of readBegin
EpochRead(r) == pc[r] = "rb_epoch" /\ pc'[r] # "rb_epoch"

\* reader r returns from readBegin
ReadBeginReturns(r) == pc[r] \in ReadBeginPcs /\ pc'[r] = "get"

\* C19: in every reachable state m_writing is 0, m_epoch or the successor of
\* m_epoch (1 after the largest value); nextEpoch stores m_writing before m_epoch
\* (between the two stores m_writing is the successor); and every value readBegin
\* returns (the marker it sampled if not 0, else the epoch it read) is a value
\* m_epoch had, or a non-zero value m_writing had, during the call.
C19_MarkerIsEpochInstalled ==
    /\ [](m_writing \in {0, m_epoch, Successor(m_epoch)})
    /\ [](\A w \in Writers : pc[w] = "ne_epoch" => m_writing = Successor(m_epoch))
    /\ [][ \A r \in Readers :
             /\ EpochRead(r)
                => (IF r_writing[r] # 0 THEN r_writing[r] ELSE r_epoch'[r]) \in seen[r]
             /\ ReadBeginReturns(r)
                => r_epoch'[r] = (IF r_writing[r] # 0 THEN r_writing[r] ELSE r_epoch[r])
          ]_vars

\* readBegin has returned the announced epoch while nextEpoch is between its two
\* stores: m_epoch is still the old one
C19_ReturnedAnnounced ==
    \E r \in Readers, w \in Writers :
        /\ pc[w] = "ne_epoch" /\ pc[r] = "get"
        /\ r_epoch[r] = m_writing /\ m_writing = Successor(m_epoch)

\* C20: the value readBegin returned, which the reader holds until readEnd
\* returns, is never 0, so assert(writing > 0) of readEnd holds whenever the
\* epoch == writing branch is taken, also after the epoch has wrapped.
C20_TokenNeverZero ==
    /\ \A r \in Readers : pc[r] \in SectionPcs \cup ReadEndPcs => r_epoch[r] \in 1 .. MaxWord
    /\ \A r \in Readers : pc[r] \in {"re_decNext", "re_check", "re_undo"} => r_writing[r] > 0

\* a reader admitted after the epoch wrapped holds the value 1 and takes the
\* epoch == writing branch of readEnd
C20_TokenAfterWrap ==
    \E r \in Readers :
        pc[r] = "re_decNext" /\ r_epoch[r] = 1 /\ r_writing[r] = 1 /\ node >= MaxWord

=============================================================================
